---- MODULE Spec2Model ----
(***************************************************************************)
(* Authentication and token lifecycle of the cornerstone backend           *)
(* (backend/src/auth.rs, backend/src/web_server.rs, backend/src/error.rs,  *)
(* backend/src/extractors.rs).                                             *)
(*                                                                         *)
(* Every request handler is split at its storage awaits: each action is    *)
(* the code that runs between two suspension points, so that concurrent    *)
(* requests interleave exactly where the async handlers can.               *)
(*                                                                         *)
(* The store is the db-sqlite build's: one writer at a time (writer), a    *)
(* transaction's statements work on a private copy (tx) that reaches the   *)
(* tables at commit and is dropped when the handler returns early.  Every  *)
(* storage call can also fail.                                             *)
(*                                                                         *)
(* Spec and SpecAccounts run logins, refreshes and logouts concurrently    *)
(* within the lifetime of the tokens; SpecClock lets the clock run over    *)
(* logins and refreshes; SpecRegister runs registrations from the empty    *)
(* store; SpecApi calls the protected routes with any credential;          *)
(* SpecSerial runs one request at a time over all of a session's life.     *)
(* SpecDeletion adds the external deletion of the account to it.          *)
(* SpecFrame runs two accounts concurrently while the clock runs.          *)
(* SpecPages creates and lists contacts with any page parameters.          *)
(***************************************************************************)
EXTENDS Integers, Sequences, FiniteSets, TLC

\* ---------------------------------------------------------------- bounds
MaxTime == 2        \* the clock runs 0..MaxTime
MaxTok == 3         \* token pairs that may be generated (Spec)
MaxTokAccounts == 2 \* token pairs that may be generated (SpecAccounts)
MaxTokClock == 2    \* token pairs that may be generated (SpecClock)
MaxTokSerial == 3   \* token pairs that may be generated (SpecSerial)
MaxTokDeletion == 2 \* token pairs that may be generated (SpecDeletion)
MaxContacts == 2    \* contacts that may be created
PageBits == 5       \* bits of a u32, scaled down; an i64 has twice as many
AccessTTL == 1      \* jwt.access_token_expires_minutes, in clock ticks
RefreshTTL == 1     \* jwt.refresh_token_expires_days, in clock ticks

Req == {"r1", "r2"}                     \* concurrently served requests
Serial == {"r1"}                        \* one request at a time
Emails == {"a@x.com", "b@x.com", "not-an-email"}
RegPasswords == {"password123", "short"}
LoginPasswords == {"password123", "wrongpass1"}

\* ------------------------------------------------------------ primitives
MinPasswordLen == 8
DefaultLeeway == 1

IsEmail(e) == e \in {"a@x.com", "b@x.com"}

Validate(e, p) == IsEmail(e) /\ Len(p) >= MinPasswordLen

BcryptHash(p) == [bcrypt |-> p]

\* bcrypt::verify returns Err for a stored string that is no bcrypt hash.
BcryptMalformed(h) == h.bcrypt = ""

BcryptVerify(p, h) == h.bcrypt = p

\* hex::encode(Sha256(token)).  Tokens and digests are both strings: a token
\* (43 base64url characters) is named by a natural number, its digest (64
\* hexadecimal characters) by a negative one, so that a digest is never a
\* token and two tokens never share a digest.
Sha256Hex(raw) == 0 - (raw + 2)

Digits == <<"1", "2", "3", "4">>

IdToString(i) == Digits[i]

ParseError == -1

ParseI64(s) ==
    IF \E i \in 1..Len(Digits) : Digits[i] = s
    THEN CHOOSE i \in 1..Len(Digits) : Digits[i] = s
    ELSE ParseError

\* ------------------------------------------------------------- responses
Created == [status |-> 201, error |-> ""]
OkTokens == [status |-> 200, error |-> ""]
NoContent == [status |-> 204, error |-> ""]
Unauthorized == [status |-> 401, error |-> "Invalid credentials"]
Conflict == [status |-> 409, error |-> "User with this email already exists"]
ValidationError == [status |-> 400, error |-> "Input validation failed"]
DatabaseError == [status |-> 500, error |-> "Database error"]
InternalServerError(msg) == [status |-> 500, error |-> msg]
JwtError == [status |-> 401, error |-> "Invalid token"]
PasswordError == [status |-> 401, error |-> "Invalid password"]
NotFound == [status |-> 404, error |-> "Resource not found"]
OkBody == [status |-> 200, error |-> ""]

\* ----------------------------------------------------------------- state
VARIABLES
    users,              \* table users: rows [id, email, password_hash]
    nextUserId,         \* autoincrement of users.id
    refresh_tokens,     \* table refresh_tokens: rows [user_id, token_hash, expires_at]
    writer,             \* the request holding the store's write lock, or "none"
    now,                \* Utc::now()
    req,                \* per request: handler, position, locals and response
    hist,               \* per returned token pair: what has happened to it
    contacts,           \* table contacts: rows [id, user_id, name, email, contact_type]
    nextContactId       \* autoincrement of contacts.id

vars == <<users, nextUserId, refresh_tokens, writer, now, req, hist, contacts,
          nextContactId>>

Secret == "jwt.secret"
OtherKey == "other-key"

\* A bearer credential: no Authorization header, a string that is no JWT, or
\* a JWT with its claims and the key that signed it.
NoToken == [form |-> "absent", sub |-> "", exp |-> 0, nonce |-> 0, key |-> ""]
Malformed == [form |-> "malformed", sub |-> "", exp |-> 0, nonce |-> 0, key |-> ""]
Jwt(sub, exp, nonce, key) ==
    [form |-> "jwt", sub |-> sub, exp |-> exp, nonce |-> nonce, key |-> key]

NoHash == -1
NoRes == [status |-> 0, error |-> ""]

Idle ==
    [op |-> "none", pc |-> "idle", at |-> "idle", res |-> NoRes, email |-> "",
     password |-> "", tok |-> 0, bearer |-> NoToken, user_id |-> 0, old |-> NoHash,
     n |-> 0, aexp |-> 0, rexp |-> 0, txopen |-> FALSE, tx |-> {}, db |-> 0,
     ran |-> FALSE, body |-> <<>>, cleanup_failed |-> FALSE,
     failed |-> FALSE, rows_affected |-> 0,
     id |-> 0, remaining |-> 0, page |-> 0, per_page |-> 0]

Unissued ==
    [user |-> 0, kind |-> "none", aexp |-> 0, returned |-> FALSE, redeemed |-> 0,
     relogin |-> FALSE, loggedout |-> FALSE, expired |-> FALSE]

Account(id, e, p) == [id |-> id, email |-> e, password_hash |-> BcryptHash(p)]

\* The store with the given accounts registered and no session, the clock at
\* 0, no request in flight, and room for k generated token pairs.
InitWith(accounts, k) ==
    /\ users = accounts
    /\ nextUserId = Cardinality(accounts) + 1
    /\ refresh_tokens = {}
    /\ writer = "none"
    /\ now = 0
    /\ req = [r \in Req |-> Idle]
    /\ hist = [t \in 1..k |-> Unissued]
    /\ contacts = {}
    /\ nextContactId = 1

AccountA == Account(1, "a@x.com", "password123")

AccountB == Account(2, "b@x.com", "password123")

\* The generated token pairs, by name.
Tokens == DOMAIN hist

\* ------------------------------------------------------- request plumbing
\* A response is on its way out: it is sent before the server does anything
\* else (Respond), so that every response can be looked at in the state it
\* was produced in.
Responding == \E r \in Req : req[r].pc = "done"

\* A new request is served as the first idle one of Req.
CanStart(r) ==
    /\ ~Responding
    /\ req[r].pc = "idle"
    /\ r = "r2" => req["r1"].pc # "idle"

\* Request r stands at pc and takes its next step.
At(r, pc) == ~Responding /\ req[r].pc = pc

Respond(r) ==
    /\ req[r].pc = "done"
    /\ req' = [req EXCEPT ![r] = Idle]
    /\ UNCHANGED <<contacts, nextContactId, users, nextUserId, refresh_tokens, writer, now, hist>>

\* Request r, with locals q, ends at its current position with response res.
Finish(r, q, res) ==
    req' = [req EXCEPT ![r] = [q EXCEPT !.pc = "done", !.at = q.pc, !.res = res]]

\* A request r that ends with response res and body b.
FinishBody(r, q, res, b) == Finish(r, [q EXCEPT !.body = b], res)

Goto(r, q, pc) == req' = [req EXCEPT ![r] = [q EXCEPT !.pc = pc]]

\* One more storage round trip of the request.
Db(q) == [q EXCEPT !.db = @ + 1]

\* A storage call of request r returns Err(sqlx::Error): the ? operator ends
\* the handler with AppError::DatabaseError.  Variant: the error is mapped to
\* Unauthorized, as the decode errors are.
FaultAsUnauthorized(r, q) == Finish(r, [q EXCEPT !.failed = TRUE], Unauthorized)

Fault(r, q) == Finish(r, [q EXCEPT !.failed = TRUE], DatabaseError)

\* ------------------------------------------------------------ SQL helpers
UserByEmail(e) == {u \in users : u.email = e}

UserById(id) == {u \in users : u.id = id}

\* Mutant: the lookup does not filter by the hash.
SelectAnyRow(rows, h) == rows

SelectByHash(rows, h) == {x \in rows : x.token_hash = h}

DeleteByHash(rows, h) == {x \in rows : x.token_hash # h}

\* Mutant: the DELETE of logout matches no row.
DeleteNoRow(rows, u) == rows

DeleteByUser(rows, u) == {x \in rows : x.user_id # u}

\* Mutant: a plain INSERT, without the ON CONFLICT clause.
\* Mutant: ON CONFLICT(token_hash) DO UPDATE.
UpsertOnHash(rows, u, h, e) ==
    {x \in rows : x.token_hash # h} \cup {[user_id |-> u, token_hash |-> h, expires_at |-> e]}

InsertOnly(rows, u, h, e) ==
    rows \cup {[user_id |-> u, token_hash |-> h, expires_at |-> e]}

\* Mutant: ON CONFLICT(user_id) DO NOTHING.
UpsertDoNothing(rows, u, h, e) ==
    IF \E x \in rows : x.user_id = u
    THEN rows
    ELSE rows \cup {[user_id |-> u, token_hash |-> h, expires_at |-> e]}

\* INSERT ... ON CONFLICT(user_id) DO UPDATE SET token_hash, expires_at
Upsert(rows, u, h, e) ==
    IF \E x \in rows : x.user_id = u
    THEN {IF x.user_id = u THEN [x EXCEPT !.token_hash = h, !.expires_at = e] ELSE x
            : x \in rows}
    ELSE rows \cup {[user_id |-> u, token_hash |-> h, expires_at |-> e]}

\* ------------------------------------------------------------------ clock
Tick ==
    /\ ~Responding
    /\ now < MaxTime
    /\ now' = now + 1
    /\ UNCHANGED <<contacts, nextContactId, users, nextUserId, refresh_tokens, writer, req, hist>>

\* ------------------------------------------------------- account deletion
\* A session row refers to its account: a row cannot be written for an
\* account that does not exist, and goes when its account goes.
ForeignKeyViolated(u) == UserById(u) = {}

\* Deletion of an account is external to the handlers.  It removes the
\* account and, with it, the account's refresh session.  What becomes of the
\* account's other rows is not described; they are left alone.
DeleteAccount(u) ==
    /\ ~Responding
    /\ writer = "none"
    /\ UserById(u) # {}
    /\ users' = users \ UserById(u)
    /\ refresh_tokens' = DeleteByUser(refresh_tokens, u)
    /\ UNCHANGED <<contacts, nextContactId, nextUserId, writer, now, req, hist>>

\* --------------------------------------------------------------- register
\* The users table has a unique email (schema).
UniqueEmailViolated(e) == UserByEmail(e) # {}

\* Mutant: register without the existence check.
RegisterSelectNoCheck(r, e, p) ==
    /\ CanStart(r)
    /\ LET q == [Idle EXCEPT !.op = "register", !.pc = "reg_select", !.email = e,
                             !.password = p]
       IN  IF ~Validate(e, p)
           THEN Finish(r, q, ValidationError)
           ELSE Goto(r, q, "reg_insert")
    /\ UNCHANGED <<contacts, nextContactId, users, nextUserId, refresh_tokens, writer,
                   now, hist>>

\* auth.rs register, up to the existence check.
RegisterSelect(r, e, p) ==
    /\ CanStart(r)
    /\ LET q == [Idle EXCEPT !.op = "register", !.pc = "reg_select", !.email = e,
                             !.password = p]
       IN  IF ~Validate(e, p)
           THEN Finish(r, q, ValidationError)
           ELSE \/ Finish(r, Db(q), InternalServerError("Database error"))
                \/ IF UserByEmail(e) # {}
                   THEN Finish(r, Db(q), Conflict)
                   ELSE Goto(r, Db(q), "reg_insert")
    /\ UNCHANGED <<contacts, nextContactId, users, nextUserId, refresh_tokens, writer, now, hist>>

\* auth.rs register, password hashing and INSERT INTO users.
RegisterInsert(r) ==
    /\ At(r, "reg_insert")
    /\ LET q == Db(req[r])
       IN  \/ /\ Finish(r, q, InternalServerError("Failed to create user"))
              /\ UNCHANGED <<users, nextUserId>>
           \/ /\ writer = "none"
              /\ IF UniqueEmailViolated(q.email)
                 THEN /\ Finish(r, q, InternalServerError("Failed to create user"))
                      /\ UNCHANGED <<users, nextUserId>>
                 ELSE /\ users' = users \cup {Account(nextUserId, q.email, q.password)}
                      /\ nextUserId' = nextUserId + 1
                      /\ Finish(r, q, Created)
    /\ UNCHANGED <<contacts, nextContactId, refresh_tokens, writer, now, hist>>

\* ------------------------------------------------------------------ login
\* Mutant: an unknown email is answered NotFound.
LoginSelectNotFound(r, e, p) ==
    /\ CanStart(r)
    /\ LET q == [Idle EXCEPT !.op = "login", !.pc = "login_select", !.email = e,
                             !.password = p]
       IN  IF ~Validate(e, p)
           THEN Finish(r, q, ValidationError)
           ELSE \/ Fault(r, Db(q))
                \/ IF UserByEmail(e) = {}
                   THEN Finish(r, Db(q), NotFound)
                   ELSE LET user == CHOOSE u \in UserByEmail(e) : TRUE
                        IN  IF BcryptMalformed(user.password_hash)
                            THEN Finish(r, Db(q), PasswordError)
                            ELSE IF ~BcryptVerify(p, user.password_hash)
                            THEN Finish(r, Db(q), Unauthorized)
                            ELSE Goto(r, [Db(q) EXCEPT !.user_id = user.id], "it_begin")
    /\ UNCHANGED <<contacts, nextContactId, users, nextUserId, refresh_tokens, writer,
                   now, hist>>

\* Variant of login that ends the account's session on a wrong password.
LoginSelectRevoking(r, e, p) ==
    /\ CanStart(r)
    /\ LET q == [Idle EXCEPT !.op = "login", !.pc = "login_select", !.email = e,
                             !.password = p]
       IN  IF ~Validate(e, p)
           THEN Finish(r, q, ValidationError) /\ UNCHANGED refresh_tokens
           ELSE \/ Fault(r, Db(q)) /\ UNCHANGED refresh_tokens
                \/ IF UserByEmail(e) = {}
                   THEN Finish(r, Db(q), Unauthorized) /\ UNCHANGED refresh_tokens
                   ELSE LET user == CHOOSE u \in UserByEmail(e) : TRUE
                        IN  IF BcryptMalformed(user.password_hash)
                            THEN Finish(r, Db(q), PasswordError) /\ UNCHANGED refresh_tokens
                            ELSE IF ~BcryptVerify(p, user.password_hash)
                            THEN /\ Finish(r, Db(q), Unauthorized)
                                 /\ refresh_tokens' = DeleteByUser(refresh_tokens, user.id)
                            ELSE /\ Goto(r, [Db(q) EXCEPT !.user_id = user.id], "it_begin")
                                 /\ UNCHANGED refresh_tokens
    /\ UNCHANGED <<contacts, nextContactId, users, nextUserId, writer, now, hist>>

\* auth.rs login, up to the call of issue_tokens.
LoginSelect(r, e, p) ==
    /\ CanStart(r)
    /\ LET q == [Idle EXCEPT !.op = "login", !.pc = "login_select", !.email = e,
                             !.password = p]
       IN  IF ~Validate(e, p)
           THEN Finish(r, q, ValidationError)
           ELSE \/ Fault(r, Db(q))
                \/ IF UserByEmail(e) = {}
                   THEN Finish(r, Db(q), Unauthorized)
                   ELSE LET user == CHOOSE u \in UserByEmail(e) : TRUE
                        IN  IF BcryptMalformed(user.password_hash)
                            THEN Finish(r, Db(q), PasswordError)
                            ELSE IF ~BcryptVerify(p, user.password_hash)
                            THEN Finish(r, Db(q), Unauthorized)
                            ELSE Goto(r, [Db(q) EXCEPT !.user_id = user.id], "it_begin")
    /\ UNCHANGED <<contacts, nextContactId, users, nextUserId, refresh_tokens, writer, now, hist>>

\* ----------------------------------------------------------- issue_tokens
\* Variant of the access token without the nonce claim.
AccessTokenNoNonce(uid, exp, nonce) == Jwt(IdToString(uid), exp, 0, Secret)

\* The access token issue_tokens signs.
AccessToken(uid, exp, nonce) == Jwt(IdToString(uid), exp, nonce, Secret)

\* The random values (32 refresh-token bytes, 16 nonce characters) of one
\* call are named by a number. A generated value differs from every value
\* that a response has returned or that a request in flight holds; the name
\* of a value that was dropped unseen is used again.
Unused == {n \in Tokens : ~hist[n].returned /\ \A r \in Req : req[r].n # n}

Fresh == CHOOSE n \in Unused : \A m \in Unused : n <= m

\* Mutant: the access token's expiry is the signing time, without the TTL.
IssueBeginNoTTL(r) ==
    /\ At(r, "it_begin")
    /\ LET q == Db(req[r])
       IN  \/ Finish(r, req[r], JwtError)
           \/ Fault(r, q)
           \/ /\ Unused # {}
              /\ Goto(r, [q EXCEPT !.n = Fresh, !.aexp = now, !.rexp = now + RefreshTTL],
                      IF q.old # NoHash THEN "it_delete" ELSE "it_upsert")
    /\ UNCHANGED <<contacts, nextContactId, users, nextUserId, refresh_tokens, writer,
                   now, hist>>

\* issue_tokens: nonce, access token (encode can return Err), refresh token
\* and its hash, then db_pool.begin().
IssueBegin(r) ==
    /\ At(r, "it_begin")
    /\ LET q == Db(req[r])
       IN  \/ Finish(r, req[r], JwtError)
           \/ Fault(r, q)
           \/ /\ Unused # {}
              /\ Goto(r, [q EXCEPT !.n = Fresh, !.aexp = now + AccessTTL,
                                   !.rexp = now + RefreshTTL],
                      IF q.old # NoHash THEN "it_delete" ELSE "it_upsert")
    /\ UNCHANGED <<contacts, nextContactId, users, nextUserId, refresh_tokens, writer, now, hist>>

\* Mutant: the DELETE of the old row runs on the pool, outside the
\* transaction.
IssueDeleteOnPool(r) ==
    /\ At(r, "it_delete")
    /\ LET q == Db(req[r])
       IN  \/ /\ Fault(r, q)
              /\ UNCHANGED refresh_tokens
           \/ /\ writer = "none"
              /\ refresh_tokens' = DeleteByHash(refresh_tokens, q.old)
              /\ Goto(r, q, "it_upsert")
    /\ UNCHANGED <<contacts, nextContactId, users, nextUserId, writer, now, hist>>

\* issue_tokens: DELETE FROM refresh_tokens WHERE token_hash = old_hash, on
\* the transaction.
IssueDelete(r) ==
    /\ At(r, "it_delete")
    /\ LET q == Db(req[r])
       IN  \/ /\ Fault(r, q)
              /\ writer' = writer
           \/ /\ writer = "none"
              /\ writer' = r
              /\ Goto(r, [q EXCEPT !.txopen = TRUE,
                                   !.tx = DeleteByHash(refresh_tokens, q.old)],
                      "it_upsert")
    /\ UNCHANGED <<contacts, nextContactId, users, nextUserId, refresh_tokens, now, hist>>

\* issue_tokens: the upsert of the new session, on the transaction.
\* Variant of the upsert that is not held to the row's account existing.
IssueUpsertUnchecked(r) ==
    /\ At(r, "it_upsert")
    /\ LET q == Db(req[r])
           base == IF q.txopen THEN q.tx ELSE refresh_tokens
       IN  \/ /\ Fault(r, q)
              /\ writer' = IF writer = r THEN "none" ELSE writer
           \/ /\ writer \in {"none", r}
              /\ writer' = r
              /\ Goto(r, [q EXCEPT !.txopen = TRUE,
                                   !.tx = Upsert(base, q.user_id, Sha256Hex(q.n), q.rexp)],
                      "it_commit")
    /\ UNCHANGED <<contacts, nextContactId, users, nextUserId, refresh_tokens, now, hist>>

\* Variant of the upsert that stores the token itself.
IssueUpsertStoringRaw(r) ==
    /\ At(r, "it_upsert")
    /\ LET q == Db(req[r])
           base == IF q.txopen THEN q.tx ELSE refresh_tokens
       IN  \/ /\ Fault(r, q)
              /\ writer' = IF writer = r THEN "none" ELSE writer
           \/ /\ writer \in {"none", r}
              /\ IF ForeignKeyViolated(q.user_id)
                 THEN /\ Fault(r, q)
                      /\ writer' = IF writer = r THEN "none" ELSE writer
                 ELSE /\ writer' = r
                      /\ Goto(r, [q EXCEPT !.txopen = TRUE,
                                           !.tx = Upsert(base, q.user_id, q.n, q.rexp)],
                              "it_commit")
    /\ UNCHANGED <<contacts, nextContactId, users, nextUserId, refresh_tokens, now, hist>>

\* Variant of the upsert that runs on the pool, outside the transaction.
IssueUpsertOnPool(r) ==
    /\ At(r, "it_upsert")
    /\ LET q == Db(req[r])
           base == IF q.txopen THEN q.tx ELSE refresh_tokens
       IN  \/ /\ Fault(r, q)
              /\ writer' = IF writer = r THEN "none" ELSE writer
              /\ UNCHANGED refresh_tokens
           \/ /\ writer \in {"none", r}
              /\ IF ForeignKeyViolated(q.user_id)
                 THEN /\ Fault(r, q)
                      /\ writer' = IF writer = r THEN "none" ELSE writer
                      /\ UNCHANGED refresh_tokens
                 ELSE /\ writer' = r
                      /\ refresh_tokens' = Upsert(refresh_tokens, q.user_id,
                                                  Sha256Hex(q.n), q.rexp)
                      /\ Goto(r, [q EXCEPT !.txopen = TRUE,
                                           !.tx = Upsert(base, q.user_id, Sha256Hex(q.n), q.rexp)],
                              "it_commit")
    /\ UNCHANGED <<contacts, nextContactId, users, nextUserId, now, hist>>

IssueUpsert(r) ==
    /\ At(r, "it_upsert")
    /\ LET q == Db(req[r])
           base == IF q.txopen THEN q.tx ELSE refresh_tokens
       IN  \/ /\ Fault(r, q)
              /\ writer' = IF writer = r THEN "none" ELSE writer
           \/ /\ writer \in {"none", r}
              /\ IF ForeignKeyViolated(q.user_id)
                 THEN /\ Fault(r, q)
                      /\ writer' = IF writer = r THEN "none" ELSE writer
                 ELSE /\ writer' = r
                      /\ Goto(r, [q EXCEPT !.txopen = TRUE,
                                           !.tx = Upsert(base, q.user_id, Sha256Hex(q.n), q.rexp)],
                              "it_commit")
    /\ UNCHANGED <<contacts, nextContactId, users, nextUserId, refresh_tokens, now, hist>>

\* What a committed issuance adds to the record of the tokens: the new pair
\* is returned, the presented token (refresh) has been exchanged once more,
\* and the earlier logins of the account are followed by this login.
Committed(q) ==
    [t \in Tokens |->
        IF t = q.n
        THEN [Unissued EXCEPT !.user = q.user_id, !.kind = q.op, !.aexp = q.aexp,
                              !.returned = TRUE]
        ELSE IF q.op = "refresh" /\ t = q.tok
        THEN [hist[t] EXCEPT !.redeemed = IF @ < 2 THEN @ + 1 ELSE @]
        ELSE IF q.op = "login" /\ hist[t].kind = "login" /\ hist[t].user = q.user_id
        THEN [hist[t] EXCEPT !.relogin = TRUE]
        ELSE hist[t]]

\* LoginResponse { access_token, refresh_token }: the signed claims and the
\* raw refresh token.
LoginResponse(q) ==
    [access_token |-> AccessToken(q.user_id, q.aexp, q.n), refresh_token |-> q.n]

\* Variant of issue_tokens that returns the pair without tx.commit(): the
\* transaction is rolled back when it is dropped.
IssueCommitForgotten(r) ==
    /\ At(r, "it_commit")
    /\ LET q == Db(req[r])
       IN  \/ /\ Fault(r, q)
              /\ UNCHANGED <<refresh_tokens, hist>>
           \/ /\ refresh_tokens' = refresh_tokens
              /\ hist' = Committed(q)
              /\ FinishBody(r, q, OkTokens, <<LoginResponse(q)>>)
    /\ writer' = "none"
    /\ UNCHANGED <<contacts, nextContactId, users, nextUserId, now>>

\* issue_tokens: tx.commit() and the Ok(LoginResponse) that follows it.
IssueCommit(r) ==
    /\ At(r, "it_commit")
    /\ LET q == Db(req[r])
       IN  \/ /\ Fault(r, q)
              /\ UNCHANGED <<refresh_tokens, hist>>
           \/ /\ refresh_tokens' = q.tx
              /\ hist' = Committed(q)
              /\ FinishBody(r, q, OkTokens, <<LoginResponse(q)>>)
    /\ writer' = "none"
    /\ UNCHANGED <<contacts, nextContactId, users, nextUserId, now>>

\* ---------------------------------------------------------------- refresh
\* The raw refresh tokens a client can present: those some response has
\* returned, and a value no response ever returned.
Forged == 0

Presentable == {Forged} \cup {t \in Tokens : hist[t].returned}

\* Mutant: refresh without the expiry check.
RefreshSelectNoExpiry(r, t) ==
    /\ CanStart(r)
    /\ LET q == Db([Idle EXCEPT !.op = "refresh", !.pc = "rf_select", !.tok = t])
           found == SelectByHash(refresh_tokens, Sha256Hex(t))
       IN  \/ Fault(r, q)
           \/ IF found = {}
              THEN Finish(r, q, Unauthorized)
              ELSE LET record == CHOOSE x \in found : TRUE
                   IN  Goto(r, [q EXCEPT !.user_id = record.user_id,
                                         !.old = Sha256Hex(t)], "it_begin")
    /\ UNCHANGED <<contacts, nextContactId, users, nextUserId, refresh_tokens, writer,
                   now, hist>>

\* auth.rs refresh: hash, SELECT by hash, expiry check.
\* Variant of refresh whose expiry check is expires_at <= now.
RefreshSelectInclusive(r, t) ==
    /\ CanStart(r)
    /\ LET q == Db([Idle EXCEPT !.op = "refresh", !.pc = "rf_select", !.tok = t])
           found == SelectByHash(refresh_tokens, Sha256Hex(t))
       IN  \/ Fault(r, q)
           \/ IF found = {}
              THEN Finish(r, q, Unauthorized)
              ELSE LET record == CHOOSE x \in found : TRUE
                       q1 == [q EXCEPT !.remaining = record.expires_at - now]
                   IN  IF record.expires_at <= now
                       THEN Goto(r, q1, "rf_cleanup")
                       ELSE Goto(r, [q1 EXCEPT !.user_id = record.user_id,
                                               !.old = Sha256Hex(t)], "it_begin")
    /\ UNCHANGED <<contacts, nextContactId, users, nextUserId, refresh_tokens, writer, now, hist>>

\* Variant of refresh that reads the account from a row fetched without the
\* WHERE clause.
RefreshSelectFirstRow(r, t) ==
    /\ CanStart(r)
    /\ LET q == Db([Idle EXCEPT !.op = "refresh", !.pc = "rf_select", !.tok = t])
           found == SelectByHash(refresh_tokens, Sha256Hex(t))
       IN  \/ Fault(r, q)
           \/ IF found = {}
              THEN Finish(r, q, Unauthorized)
              ELSE LET record == CHOOSE x \in found : TRUE
                       first == CHOOSE x \in refresh_tokens :
                                    \A y \in refresh_tokens : x.user_id <= y.user_id
                       q1 == [q EXCEPT !.remaining = record.expires_at - now]
                   IN  IF record.expires_at < now
                       THEN Goto(r, q1, "rf_cleanup")
                       ELSE Goto(r, [q1 EXCEPT !.user_id = first.user_id,
                                               !.old = Sha256Hex(t)], "it_begin")
    /\ UNCHANGED <<contacts, nextContactId, users, nextUserId, refresh_tokens, writer, now, hist>>

RefreshSelect(r, t) ==
    /\ CanStart(r)
    /\ LET q == Db([Idle EXCEPT !.op = "refresh", !.pc = "rf_select", !.tok = t])
           found == SelectByHash(refresh_tokens, Sha256Hex(t))
       IN  \/ Fault(r, q)
           \/ IF found = {}
              THEN Finish(r, q, Unauthorized)
              ELSE LET record == CHOOSE x \in found : TRUE
                       q1 == [q EXCEPT !.remaining = record.expires_at - now]
                   IN  IF record.expires_at < now
                       THEN Goto(r, q1, "rf_cleanup")
                       ELSE Goto(r, [q1 EXCEPT !.user_id = record.user_id,
                                               !.old = Sha256Hex(t)], "it_begin")
    /\ UNCHANGED <<contacts, nextContactId, users, nextUserId, refresh_tokens, writer, now, hist>>

\* Mutant: an expired token is answered with a message of its own.
RefreshCleanupTokenExpired(r) ==
    /\ At(r, "rf_cleanup")
    /\ LET q == Db(req[r])
           TokenExpired == [status |-> 401, error |-> "Token expired"]
       IN  \/ /\ Finish(r, [q EXCEPT !.cleanup_failed = TRUE], TokenExpired)
              /\ refresh_tokens' = refresh_tokens
           \/ /\ writer = "none"
              /\ refresh_tokens' = DeleteByHash(refresh_tokens, Sha256Hex(q.tok))
              /\ Finish(r, q, TokenExpired)
    /\ hist' = [hist EXCEPT ![req[r].tok].expired = TRUE]
    /\ UNCHANGED <<contacts, nextContactId, users, nextUserId, writer, now>>

\* auth.rs refresh: the best-effort DELETE of the expired row, whose result
\* is dropped by .ok(); the token is recorded as rejected for its expiry.
\* Variant of the cleanup whose failed DELETE is propagated with ?.
RefreshCleanupPropagating(r) ==
    /\ At(r, "rf_cleanup")
    /\ LET q == Db(req[r])
       IN  \/ /\ Finish(r, [q EXCEPT !.cleanup_failed = TRUE], DatabaseError)
              /\ refresh_tokens' = refresh_tokens
           \/ /\ writer = "none"
              /\ refresh_tokens' = DeleteByHash(refresh_tokens, Sha256Hex(q.tok))
              /\ Finish(r, q, Unauthorized)
    /\ hist' = [hist EXCEPT ![req[r].tok].expired = TRUE]
    /\ UNCHANGED <<contacts, nextContactId, users, nextUserId, writer, now>>

\* Variant of the cleanup that deletes the session of the expired row's
\* account.
RefreshCleanupByUser(r) ==
    /\ At(r, "rf_cleanup")
    /\ LET q == Db(req[r])
       IN  \/ /\ Finish(r, [q EXCEPT !.cleanup_failed = TRUE], Unauthorized)
              /\ refresh_tokens' = refresh_tokens
           \/ /\ writer = "none"
              /\ refresh_tokens' = DeleteByUser(refresh_tokens, hist[q.tok].user)
              /\ Finish(r, q, Unauthorized)
    /\ hist' = [hist EXCEPT ![req[r].tok].expired = TRUE]
    /\ UNCHANGED <<contacts, nextContactId, users, nextUserId, writer, now>>

\* Variant of the cleanup that deletes every expired row.
RefreshCleanupAllExpired(r) ==
    /\ At(r, "rf_cleanup")
    /\ LET q == Db(req[r])
       IN  \/ /\ Finish(r, [q EXCEPT !.cleanup_failed = TRUE], Unauthorized)
              /\ refresh_tokens' = refresh_tokens
           \/ /\ writer = "none"
              /\ refresh_tokens' = {x \in refresh_tokens : ~(x.expires_at < now)}
              /\ Finish(r, q, Unauthorized)
    /\ hist' = [hist EXCEPT ![req[r].tok].expired = TRUE]
    /\ UNCHANGED <<contacts, nextContactId, users, nextUserId, writer, now>>

RefreshCleanup(r) ==
    /\ At(r, "rf_cleanup")
    /\ LET q == Db(req[r])
       IN  \/ /\ Finish(r, [q EXCEPT !.cleanup_failed = TRUE], Unauthorized)
              /\ refresh_tokens' = refresh_tokens
           \/ /\ writer = "none"
              /\ refresh_tokens' = DeleteByHash(refresh_tokens, Sha256Hex(q.tok))
              /\ Finish(r, q, Unauthorized)
    /\ hist' = [hist EXCEPT ![req[r].tok].expired = TRUE]
    /\ UNCHANGED <<contacts, nextContactId, users, nextUserId, writer, now>>

\* ------------------------------------------------- the session validator
\* Mutant: decode with validate_exp off.
DecodeIgnoringExpiry(b, key, leeway, t) == b.form = "jwt" /\ b.key = key

\* jsonwebtoken::decode with validate_exp: the token must be a JWT, signed
\* with the key, and not expired by more than the leeway.
Decode(b, key, leeway, t) ==
    /\ b.form = "jwt"
    /\ b.key = key
    /\ ~(b.exp < t - leeway)

\* web_server.rs create_router: the routes behind auth_middleware.
ProtectedOps ==
    {"logout", "get_contacts", "create_contact", "get_contact", "update_contact",
     "delete_contact"}

\* Mutant: the middleware lets a request without a token through to the
\* handler.
MwDecodeOptionalAuth(r, op, b) ==
    /\ CanStart(r)
    /\ LET q == [Idle EXCEPT !.op = op, !.pc = "mw_decode", !.bearer = b]
       IN  IF b.form = "absent"
           THEN Goto(r, [q EXCEPT !.ran = TRUE], "handler")
           ELSE IF ~Decode(b, Secret, 0, now)
           THEN Finish(r, q, Unauthorized)
           ELSE IF ParseI64(b.sub) = ParseError
           THEN Finish(r, q, InternalServerError("Invalid user ID in token"))
           ELSE Goto(r, [q EXCEPT !.user_id = ParseI64(b.sub)], "mw_load")
    /\ UNCHANGED <<contacts, nextContactId, users, nextUserId, refresh_tokens, writer,
                   now, hist>>

\* auth_middleware: header, decode (leeway 0) and subject parsing.
\* Variant of the validator that answers Unauthorized to a subject that
\* does not parse.
MwDecodeParseUnauthorized(r, op, b) ==
    /\ CanStart(r)
    /\ LET q == [Idle EXCEPT !.op = op, !.pc = "mw_decode", !.bearer = b]
       IN  IF b.form = "absent"
           THEN Finish(r, q, Unauthorized)
           ELSE IF ~Decode(b, Secret, 0, now)
           THEN Finish(r, q, Unauthorized)
           ELSE IF ParseI64(b.sub) = ParseError
           THEN Finish(r, q, Unauthorized)
           ELSE Goto(r, [q EXCEPT !.user_id = ParseI64(b.sub)], "mw_load")
    /\ UNCHANGED <<contacts, nextContactId, users, nextUserId, refresh_tokens, writer, now, hist>>

MwDecode(r, op, b) ==
    /\ CanStart(r)
    /\ LET q == [Idle EXCEPT !.op = op, !.pc = "mw_decode", !.bearer = b]
       IN  IF b.form = "absent"
           THEN Finish(r, q, Unauthorized)
           ELSE IF ~Decode(b, Secret, 0, now)
           THEN Finish(r, q, Unauthorized)
           ELSE IF ParseI64(b.sub) = ParseError
           THEN Finish(r, q, InternalServerError("Invalid user ID in token"))
           ELSE Goto(r, [q EXCEPT !.user_id = ParseI64(b.sub)], "mw_load")
    /\ UNCHANGED <<contacts, nextContactId, users, nextUserId, refresh_tokens, writer, now, hist>>

\* auth_middleware: the account is loaded and next.run(request) starts the
\* handler, whose AuthUser extractor decodes the bearer token again
\* (Validation::default()) before its own query.
\* Variant of the validator that also requires a session row of the user.
MwLoadCheckingSession(r) ==
    /\ At(r, "mw_load")
    /\ LET q == Db(req[r])
       IN  \/ Fault(r, q)
           \/ IF UserById(q.user_id) = {}
              THEN Finish(r, q, Unauthorized)
              ELSE IF DeleteByUser(refresh_tokens, q.user_id) = refresh_tokens
              THEN Finish(r, q, Unauthorized)
              ELSE IF ~Decode(q.bearer, Secret, DefaultLeeway, now)
              THEN Finish(r, q, Unauthorized)
              ELSE Goto(r, q, "extract")
    /\ UNCHANGED <<contacts, nextContactId, users, nextUserId, refresh_tokens, writer, now, hist>>

\* Variant of the validator that does not require the user row.
MwLoadNoLookup(r) ==
    /\ At(r, "mw_load")
    /\ LET q == Db(req[r])
       IN  \/ Fault(r, q)
           \/ IF ~Decode(q.bearer, Secret, DefaultLeeway, now)
              THEN Finish(r, q, Unauthorized)
              ELSE Goto(r, q, "extract")
    /\ UNCHANGED <<contacts, nextContactId, users, nextUserId, refresh_tokens, writer, now, hist>>

MwLoad(r) ==
    /\ At(r, "mw_load")
    /\ LET q == Db(req[r])
       IN  \/ Fault(r, q)
           \/ IF UserById(q.user_id) = {}
              THEN Finish(r, q, Unauthorized)
              ELSE IF ~Decode(q.bearer, Secret, DefaultLeeway, now)
              THEN Finish(r, q, Unauthorized)
              ELSE Goto(r, q, "extract")
    /\ UNCHANGED <<contacts, nextContactId, users, nextUserId, refresh_tokens, writer, now, hist>>

\* extractors.rs AuthUser::from_request_parts: the account is loaded again;
\* then the handler body runs up to its query.
Extract(r) ==
    /\ At(r, "extract")
    /\ LET q == Db(req[r])
       IN  \/ Fault(r, q)
           \/ IF UserById(q.user_id) = {}
              THEN Finish(r, q, Unauthorized)
              ELSE Goto(r, [q EXCEPT !.ran = TRUE], "handler")
    /\ UNCHANGED <<contacts, nextContactId, users, nextUserId, refresh_tokens, writer, now, hist>>

\* ----------------------------------------------------------------- logout
\* What a logout adds to the record of the tokens of the account.
LoggedOut(u) ==
    [t \in Tokens |->
        IF hist[t].returned /\ hist[t].user = u
        THEN [hist[t] EXCEPT !.loggedout = TRUE]
        ELSE hist[t]]

\* auth.rs logout: DELETE FROM refresh_tokens WHERE user_id = user.id
\* rows_affected of the DELETE, which logout does not look at.
RowsAffected(before, after) == Cardinality(before \ after)

\* Variant of logout that answers NotFound when it deleted no row.
LogoutRequiringRow(r) ==
    /\ At(r, "handler")
    /\ req[r].op = "logout"
    /\ LET q == Db(req[r])
       IN  \/ /\ Fault(r, q)
              /\ UNCHANGED <<refresh_tokens, hist>>
           \/ /\ writer = "none"
              /\ refresh_tokens' = DeleteByUser(refresh_tokens, q.user_id)
              /\ hist' = LoggedOut(q.user_id)
              /\ LET k == RowsAffected(refresh_tokens, refresh_tokens')
                 IN  Finish(r, [q EXCEPT !.rows_affected = k],
                            IF k = 0 THEN NotFound ELSE NoContent)
    /\ UNCHANGED <<contacts, nextContactId, users, nextUserId, writer, now>>

Logout(r) ==
    /\ At(r, "handler")
    /\ req[r].op = "logout"
    /\ LET q == Db(req[r])
       IN  \/ /\ Fault(r, q)
              /\ UNCHANGED <<refresh_tokens, hist>>
           \/ /\ writer = "none"
              /\ refresh_tokens' = DeleteByUser(refresh_tokens, q.user_id)
              /\ hist' = LoggedOut(q.user_id)
              /\ Finish(r, [q EXCEPT !.rows_affected =
                                RowsAffected(refresh_tokens, refresh_tokens')],
                        NoContent)
    /\ UNCHANGED <<contacts, nextContactId, users, nextUserId, writer, now>>

\* The bearer tokens presented to logout: the access tokens of the returned
\* pairs, and no token at all.
IssuedBearers ==
    {NoToken} \cup
    {AccessToken(hist[t].user, hist[t].aexp, t) : t \in {n \in Tokens : hist[n].returned}}

\* --------------------------------------------------------------- contacts
\* ContactDto: the validated fields; age and subscribed are carried through
\* unread and are left out.
Dto(name, email, contact_type) ==
    [name |-> name, email |-> email, contact_type |-> contact_type]

ContactDtos ==
    {Dto("Ann", "a@x.com", "Friend"), Dto("Bob", "b@x.com", "Friend"),
     Dto("", "a@x.com", "Friend"), Dto("Ann", "not-an-email", "Friend"),
     Dto("Ann", "a@x.com", "")}

ValidateContact(d) ==
    Len(d.name) >= 1 /\ IsEmail(d.email) /\ Len(d.contact_type) >= 1

ContactsOf(u) == {c \in contacts : c.user_id = u}

\* Variant: WHERE id = $1, without the owner.
ContactByIdAnyOwner(id, u) == {c \in contacts : c.id = id}

ContactById(id, u) == {c \in contacts : c.id = id /\ c.user_id = u}

\* Rows in the order the store returns them (by id).
RECURSIVE ById(_)
ById(rows) ==
    IF rows = {}
    THEN <<>>
    ELSE LET first == CHOOSE c \in rows : \A d \in rows : c.id <= d.id
         IN  <<first>> \o ById(rows \ {first})

\* LIMIT n OFFSET k of the db-sqlite build: a negative OFFSET counts as 0.
LimitOffset(s, n, k) ==
    LET k0 == IF k < 0 THEN 0 ELSE k
    IN  SubSeq(s, k0 + 1, IF k0 + n < Len(s) THEN k0 + n ELSE Len(s))

\* web_server.rs create_contact
CreateContact(r, d) ==
    /\ At(r, "handler")
    /\ req[r].op = "create_contact"
    /\ IF ~ValidateContact(d)
       THEN /\ Finish(r, req[r], ValidationError)
            /\ UNCHANGED <<contacts, nextContactId>>
       ELSE LET q == Db(req[r])
            IN  \/ /\ Finish(r, q, InternalServerError("Failed to create contact"))
                   /\ UNCHANGED <<contacts, nextContactId>>
                \/ /\ writer = "none"
                   /\ nextContactId <= MaxContacts
                   /\ LET row == [id |-> nextContactId, user_id |-> q.user_id,
                                  name |-> d.name, email |-> d.email,
                                  contact_type |-> d.contact_type]
                      IN  /\ contacts' = contacts \cup {row}
                          /\ nextContactId' = nextContactId + 1
                          /\ FinishBody(r, q, Created, <<row>>)
    /\ UNCHANGED <<users, nextUserId, refresh_tokens, writer, now, hist>>

\* web_server.rs get_contact
GetContact(r, id) ==
    /\ At(r, "handler")
    /\ req[r].op = "get_contact"
    /\ LET q == [Db(req[r]) EXCEPT !.id = id]
       IN  \/ Finish(r, q, InternalServerError("Failed to fetch contact"))
           \/ IF ContactById(id, q.user_id) = {}
              THEN Finish(r, q, NotFound)
              ELSE FinishBody(r, q, OkBody, ById(ContactById(id, q.user_id)))
    /\ UNCHANGED <<contacts, nextContactId, users, nextUserId, refresh_tokens, writer,
                   now, hist>>

\* Option<u32>: None is the empty set, Some(x) is {x}.
UnwrapOr(o, d) == IF o = {} THEN d ELSE CHOOSE x \in o : TRUE

DefaultPage == 1
DefaultPerPage == 20

\* The integer types of get_contacts: page and per_page are u32 and are cast
\* to i64 before the offset is computed.  The widths are scaled (PageBits
\* for 32) and keep their ratio: the product of two u32 needs one bit more
\* than an i64 holds.
U32Max == 2^PageBits - 1

I64Max == 2^(2 * PageBits - 1) - 1

\* x * y overflows the i64.
Overflows(x, y) == x * y > I64Max \/ x * y < 0 - I64Max - 1

\* x * y of a build without overflow checks: the two's complement wrap.
WrappingMul(x, y) ==
    LET m == 2^(2 * PageBits)
        z == (x * y) % m
    IN  IF z > I64Max THEN z - m ELSE z

\* The request of a handler that panicked gets no response.
Panicked == [status |-> 0, error |-> "attempt to multiply with overflow"]

\* web_server.rs get_contacts.  The multiplication of the offset panics in
\* a build with overflow checks and wraps in a build without.
GetContacts(r, page_opt, per_page_opt) ==
    /\ At(r, "handler")
    /\ req[r].op = "get_contacts"
    /\ LET page == UnwrapOr(page_opt, DefaultPage)
           per_page == UnwrapOr(per_page_opt, DefaultPerPage)
           offset == WrappingMul(page - 1, per_page)
           q0 == [req[r] EXCEPT !.page = page, !.per_page = per_page]
           q == Db(q0)
       IN  \/ /\ Overflows(page - 1, per_page)
              /\ Finish(r, q0, Panicked)
           \/ Finish(r, q, InternalServerError("Failed to fetch contacts"))
           \/ FinishBody(r, q, OkBody,
                         LimitOffset(ById(ContactsOf(q.user_id)), per_page, offset))
    /\ UNCHANGED <<contacts, nextContactId, users, nextUserId, refresh_tokens, writer,
                   now, hist>>

\* web_server.rs update_contact
UpdateContact(r, id, d) ==
    /\ At(r, "handler")
    /\ req[r].op = "update_contact"
    /\ IF ~ValidateContact(d)
       THEN /\ Finish(r, [req[r] EXCEPT !.id = id], ValidationError)
            /\ UNCHANGED contacts
       ELSE LET q == [Db(req[r]) EXCEPT !.id = id]
            IN  \/ /\ Finish(r, q, InternalServerError("Failed to update contact"))
                   /\ UNCHANGED contacts
                \/ /\ writer = "none"
                   /\ contacts' =
                        {IF c.id = id /\ c.user_id = q.user_id
                         THEN [c EXCEPT !.name = d.name, !.email = d.email,
                                        !.contact_type = d.contact_type]
                         ELSE c : c \in contacts}
                   /\ IF ContactById(id, q.user_id) # {}
                      THEN FinishBody(r, q, OkBody, <<d>>)
                      ELSE Finish(r, q, NotFound)
    /\ UNCHANGED <<nextContactId, users, nextUserId, refresh_tokens, writer, now, hist>>

\* web_server.rs delete_contact
DeleteContact(r, id) ==
    /\ At(r, "handler")
    /\ req[r].op = "delete_contact"
    /\ LET q == [Db(req[r]) EXCEPT !.id = id]
       IN  \/ /\ Finish(r, q, InternalServerError("Failed to delete contact"))
              /\ UNCHANGED contacts
           \/ /\ writer = "none"
              /\ contacts' = contacts \ ContactById(id, q.user_id)
              /\ IF ContactById(id, q.user_id) # {}
                 THEN Finish(r, q, NoContent)
                 ELSE Finish(r, q, NotFound)
    /\ UNCHANGED <<nextContactId, users, nextUserId, refresh_tokens, writer, now, hist>>

\* The credentials a client can present to a protected route: none, a
\* string that is no JWT, and JWTs signed with the secret or with another
\* key, for a subject that is an account id or not, with any expiry.
Subjects == {"1", "2", "x"}

Bearers ==
    {NoToken, Malformed} \cup
    {Jwt(sub, exp, 0, key) : sub \in Subjects, exp \in 0..MaxTime,
                             key \in {Secret, OtherKey}}

ContactIds == 1..MaxContacts

Pages == {{}, {1}, {2}}

PerPages == {{}, {1}}

\* The values of a u32 query parameter that the listing is called with:
\* absent, small ones, and the largest.
PageParams == {{}} \cup {{x} : x \in {0, 1, 2, 3, U32Max}}

\* The access tokens of the two accounts, valid at every instant.
ValidBearers == {Jwt(IdToString(a.id), MaxTime, 0, Secret) : a \in {AccountA, AccountB}}

\* ------------------------------------------------------------------- next
\* The steps of login and refresh requests.
IssueStep ==
    \/ \E r \in Req : Respond(r)
    \/ \E r \in Req, e \in Emails, p \in LoginPasswords : LoginSelect(r, e, p)
    \/ \E r \in Req : IssueBegin(r)
    \/ \E r \in Req : IssueDelete(r)
    \/ \E r \in Req : IssueUpsert(r)
    \/ \E r \in Req : IssueCommit(r)
    \/ \E r \in Req : \E t \in Presentable : RefreshSelect(r, t)

\* The steps of logout requests.
LogoutStep ==
    \/ \E r \in Req : \E b \in IssuedBearers : MwDecode(r, "logout", b)
    \/ \E r \in Req : MwLoad(r)
    \/ \E r \in Req : Extract(r)
    \/ \E r \in Req : Logout(r)

\* Concurrent sessions within the lifetime of the tokens.
Next == IssueStep \/ LogoutStep

\* One registered account.
Spec == InitWith({AccountA}, MaxTok) /\ [][Next]_vars

\* Two registered accounts.
SpecAccounts == InitWith({AccountA, AccountB}, MaxTokAccounts) /\ [][Next]_vars

\* Concurrent sessions of two accounts while the clock runs.
NextFrame ==
    \/ Tick
    \/ \E r \in Req : RefreshCleanup(r)
    \/ Next

SpecFrame == InitWith({AccountA, AccountB}, MaxTokAccounts) /\ [][NextFrame]_vars

\* Logins and refreshes of one account while the clock runs.
NextClock ==
    \/ Tick
    \/ \E r \in Req : RefreshCleanup(r)
    \/ IssueStep

SpecClock == InitWith({AccountA}, MaxTokClock) /\ [][NextClock]_vars

\* Registrations, from the empty store.
NextRegister ==
    \/ \E r \in Req : Respond(r)
    \/ \E r \in Req, e \in Emails, p \in RegPasswords : RegisterSelect(r, e, p)
    \/ \E r \in Req : RegisterInsert(r)

SpecRegister == InitWith({}, MaxTok) /\ [][NextRegister]_vars

\* The protected routes, called one request at a time with any credential,
\* while the clock runs.
NextApi ==
    \/ Tick
    \/ \E r \in Serial : Respond(r)
    \/ \E r \in Serial, op \in ProtectedOps, b \in Bearers : MwDecode(r, op, b)
    \/ \E r \in Serial : MwLoad(r)
    \/ \E r \in Serial : Extract(r)
    \/ \E r \in Serial : Logout(r)
    \/ \E r \in Serial, d \in ContactDtos : CreateContact(r, d)
    \/ \E r \in Serial, id \in ContactIds : GetContact(r, id)
    \/ \E r \in Serial, page \in Pages, per_page \in PerPages : GetContacts(r, page, per_page)
    \/ \E r \in Serial, id \in ContactIds, d \in ContactDtos : UpdateContact(r, id, d)
    \/ \E r \in Serial, id \in ContactIds : DeleteContact(r, id)

SpecApi == InitWith({AccountA, AccountB}, MaxTok) /\ [][NextApi]_vars


\* The two accounts create and list contacts, one request at a time.
NextPages ==
    \/ \E r \in Serial : Respond(r)
    \/ \E r \in Serial, op \in {"create_contact", "get_contacts"}, b \in ValidBearers :
            MwDecode(r, op, b)
    \/ \E r \in Serial : MwLoad(r)
    \/ \E r \in Serial : Extract(r)
    \/ \E r \in Serial, d \in ContactDtos : CreateContact(r, d)
    \/ \E r \in Serial, page \in PageParams, per_page \in PageParams :
            GetContacts(r, page, per_page)

SpecPages == InitWith({AccountA, AccountB}, MaxTok) /\ [][NextPages]_vars

\* Credentials that no login or refresh returned: a string that is no JWT,
\* a JWT signed with another key, and a JWT signed with the server's key
\* whose subject is no number.
ForeignBearers ==
    {Malformed, Jwt("1", MaxTime + AccessTTL, 0, OtherKey),
     Jwt("x", MaxTime + AccessTTL, 0, Secret)}

\* Logins, refreshes and logouts of one account, one request at a time,
\* while the clock runs.
NextSerial ==
    \/ Tick
    \/ \E r \in Serial : Respond(r)
    \/ \E r \in Serial, e \in Emails, p \in LoginPasswords : LoginSelect(r, e, p)
    \/ \E r \in Serial : IssueBegin(r)
    \/ \E r \in Serial : IssueDelete(r)
    \/ \E r \in Serial : IssueUpsert(r)
    \/ \E r \in Serial : IssueCommit(r)
    \/ \E r \in Serial : \E t \in Presentable : RefreshSelect(r, t)
    \/ \E r \in Serial : RefreshCleanup(r)
    \/ \E r \in Serial : \E b \in IssuedBearers \cup ForeignBearers : MwDecode(r, "logout", b)
    \/ \E r \in Serial : MwLoad(r)
    \/ \E r \in Serial : Extract(r)
    \/ \E r \in Serial : Logout(r)

SpecSerial == InitWith({AccountA}, MaxTokSerial) /\ [][NextSerial]_vars

\* One request at a time, and the account can be deleted at any moment.
NextDeletion ==
    \/ NextSerial
    \/ \E a \in users : DeleteAccount(a.id)

SpecDeletion == InitWith({AccountA}, MaxTokDeletion) /\ [][NextDeletion]_vars

\* ----------------------------------------------------------------- claims
\* A response of request r is out.
Done(r) == req[r].pc = "done"

\* Request r starts in this step as operation op.
Starts(r, op) == req[r].pc = "idle" /\ req'[r].pc # "idle" /\ req'[r].op = op

\* The request is turned away: Unauthorized, or the internal error of a
\* storage call of its own that failed; never a token pair.
Rejected(q) == q.pc = "done" /\ q.res \in {Unauthorized, DatabaseError}

SessionsOf(rows, u) == {x \in rows : x.user_id = u}

\* C1: two concurrent refresh requests presenting the same raw refresh token
\* cannot both succeed: no token is ever exchanged for a new pair by more
\* than one refresh.
C1_ConcurrentRefreshAtMostOne == \A t \in Tokens : hist[t].redeemed <= 1

\* C2: a refresh token is single-use: a refresh call that starts after a
\* refresh presenting the same raw token has succeeded is turned away,
\* whatever logins, refreshes and logouts happened in between.
C2_SingleUse ==
    [][\A r \in Req :
        (Starts(r, "refresh") /\ req'[r].tok \in Tokens /\ hist[req'[r].tok].redeemed >= 1)
            => Rejected(req'[r])]_vars

\* A token that was exchanged before is presented again and answered
\* Unauthorized.
C2_Witness ==
    \E r \in Req :
        /\ Done(r) /\ req[r].op = "refresh" /\ req[r].tok \in Tokens
        /\ hist[req[r].tok].redeemed >= 1
        /\ req[r].at = "rf_select"
        /\ req[r].res = Unauthorized

\* C3: in every reachable state the refresh-session store holds at most one
\* row per account.
C3_OneSessionPerAccount ==
    \A u \in {a.id : a \in users} : Cardinality(SessionsOf(refresh_tokens, u)) <= 1

\* An account that has been issued two token pairs holds one session, next
\* to the session of another account.
C3_Witness ==
    /\ \E t1, t2 \in Tokens :
        /\ t1 # t2
        /\ hist[t1].returned /\ hist[t2].returned
        /\ hist[t1].user = hist[t2].user
        /\ Cardinality(SessionsOf(refresh_tokens, hist[t1].user)) = 1

\* Request r is a refresh inside issue_tokens.
Rotating(r) ==
    /\ req[r].op = "refresh"
    /\ req[r].pc \in {"it_begin", "it_delete", "it_upsert", "it_commit"}

\* C4: rotation is atomic. A step of a rotating refresh either returns the
\* new pair, and then the row of the old hash is gone and the row of the new
\* hash is stored, or leaves the store as it is: the store never shows the
\* delete without the insert, and a rotation that fails at any statement or
\* at commit changes nothing.
C4_RotationAtomic ==
    [][\A r \in Req :
        (Rotating(r) /\ req'[r] # req[r])
            => IF req'[r].pc = "done" /\ req'[r].res = OkTokens
               THEN /\ SelectByHash(refresh_tokens', req[r].old) = {}
                    /\ SelectByHash(refresh_tokens', Sha256Hex(req[r].n)) # {}
               ELSE refresh_tokens' = refresh_tokens]_vars

\* A rotation has failed at commit, after its delete and its insert, and the
\* presented token is still the stored one.
C4_Witness ==
    \E r \in Req :
        /\ Done(r) /\ req[r].op = "refresh"
        /\ req[r].at = "it_commit" /\ req[r].res = DatabaseError
        /\ SelectByHash(refresh_tokens, req[r].old) # {}
        /\ SelectByHash(refresh_tokens, Sha256Hex(req[r].n)) = {}

\* C5: a login that succeeds for an account leaves exactly one session row
\* for it, the one of the token it returns; and a refresh that then presents
\* the token of an earlier login of the account is turned away.
C5_SecondLoginReplaces ==
    [][/\ \A r \in Req :
            (req[r].op = "login" /\ req[r].pc = "it_commit" /\ req'[r].res = OkTokens)
                => SessionsOf(refresh_tokens', req[r].user_id) =
                     {[user_id |-> req[r].user_id, token_hash |-> Sha256Hex(req[r].n),
                       expires_at |-> req[r].rexp]}
       /\ \A r \in Req :
            (Starts(r, "refresh") /\ req'[r].tok \in Tokens /\ hist[req'[r].tok].relogin)
                => Rejected(req'[r])]_vars

\* After two logins of the account, the token of the first one is presented
\* and answered Unauthorized.
C5_Witness ==
    \E r \in Req :
        /\ Done(r) /\ req[r].op = "refresh" /\ req[r].tok \in Tokens
        /\ hist[req[r].tok].relogin
        /\ req[r].res = Unauthorized
        /\ Cardinality(SessionsOf(refresh_tokens, hist[req[r].tok].user)) = 1

\* C6: a logout that succeeds leaves the account without a session row, and
\* a refresh that then presents a token the account was issued before the
\* logout is turned away.
C6_LogoutEndsSession ==
    [][/\ \A r \in Req :
            (req[r].op = "logout" /\ req[r].pc = "handler" /\ req'[r].res = NoContent)
                => SessionsOf(refresh_tokens', req[r].user_id) = {}
       /\ \A r \in Req :
            (Starts(r, "refresh") /\ req'[r].tok \in Tokens /\ hist[req'[r].tok].loggedout)
                => Rejected(req'[r])]_vars

\* After a logout of the account, its last token is presented and answered
\* Unauthorized, and the account has no session.
C6_Witness ==
    \E r \in Req :
        /\ Done(r) /\ req[r].op = "refresh" /\ req[r].tok \in Tokens
        /\ hist[req[r].tok].loggedout
        /\ req[r].res = Unauthorized
        /\ SessionsOf(refresh_tokens, hist[req[r].tok].user) = {}

\* C7: a refresh that finds its token's row expired goes to the cleanup and
\* not to issue_tokens; the cleanup answers Unauthorized, returns no pair,
\* removes the row unless its delete failed, and a refresh that presents the
\* same token again is turned away, at its lookup or by the cleanup again.
C7_ExpiredRefresh ==
    [][/\ \A r \in Req :
            (Starts(r, "refresh") /\ req'[r].pc # "done"
             /\ \E x \in SelectByHash(refresh_tokens, Sha256Hex(req'[r].tok)) :
                    x.expires_at < now)
                => req'[r].pc = "rf_cleanup"
       /\ \A r \in Req :
            (req[r].pc = "rf_cleanup" /\ req'[r] # req[r])
                => /\ req'[r].pc = "done" /\ req'[r].res = Unauthorized
                   /\ \A t \in Tokens : hist'[t].returned = hist[t].returned
                   /\ req'[r].cleanup_failed
                        \/ SelectByHash(refresh_tokens', Sha256Hex(req[r].tok)) = {}
                   /\ refresh_tokens' \subseteq refresh_tokens
       /\ \A r \in Req :
            (Starts(r, "refresh") /\ req'[r].tok \in Tokens /\ hist[req'[r].tok].expired)
                => req'[r].pc = "rf_cleanup" \/ Rejected(req'[r])]_vars

\* A token rejected for its expiry is presented again, its row is gone, and
\* the answer is Unauthorized.
C7_Witness ==
    \E r \in Req :
        /\ Done(r) /\ req[r].op = "refresh" /\ req[r].tok \in Tokens
        /\ hist[req[r].tok].expired
        /\ req[r].at = "rf_select"
        /\ req[r].res = Unauthorized
        /\ SelectByHash(refresh_tokens, Sha256Hex(req[r].tok)) = {}

\* Request r starts in this step on a protected route.
StartsProtected(r) ==
    req[r].pc = "idle" /\ req'[r].pc # "idle" /\ req'[r].op \in ProtectedOps

\* The validator answers Unauthorized on the spot: no storage round trip was
\* made and the handler was not run.
TurnedAwayAtOnce(q) ==
    /\ q.pc = "done" /\ q.at = "mw_decode"
    /\ q.res = Unauthorized
    /\ q.db = 0
    /\ ~q.ran

\* C8: a protected request whose access token is malformed, is signed with
\* another key than the configured secret, or has its expiry in the past, is
\* answered Unauthorized by the validator, whatever its subject, and its
\* handler is not run.
C8_InvalidTokenRejected ==
    [][\A r \in Req :
        (/\ StartsProtected(r)
         /\ \/ req'[r].bearer.form = "malformed"
            \/ req'[r].bearer.form = "jwt" /\ req'[r].bearer.key # Secret
            \/ req'[r].bearer.form = "jwt" /\ req'[r].bearer.exp < now)
            => TurnedAwayAtOnce(req'[r])]_vars

\* A token signed with the secret for an existing account, expired, has
\* been answered Unauthorized.
C8_Witness ==
    \E r \in Req :
        /\ Done(r) /\ req[r].op \in ProtectedOps
        /\ req[r].bearer.form = "jwt" /\ req[r].bearer.key = Secret
        /\ UserById(ParseI64(req[r].bearer.sub)) # {}
        /\ req[r].bearer.exp < now
        /\ TurnedAwayAtOnce(req[r])

\* C9: a protected operation called without an access token is answered
\* Unauthorized before its handler runs and without any storage access.
C9_MissingTokenRejected ==
    [][\A r \in Req :
        (StartsProtected(r) /\ req'[r].bearer.form = "absent")
            => TurnedAwayAtOnce(req'[r])]_vars

\* A contact deletion without a token has been answered Unauthorized while
\* a contact exists.
C9_Witness ==
    \E r \in Req :
        /\ Done(r) /\ req[r].op = "delete_contact"
        /\ req[r].bearer = NoToken
        /\ TurnedAwayAtOnce(req[r])
        /\ contacts # {}

\* C10: a registration with a valid payload whose email is already
\* registered is answered Conflict at its existence check (or with the
\* internal error of that query failing) and adds no account.
C10_DuplicateEmailConflict ==
    [][\A r \in Req :
        (/\ Starts(r, "register")
         /\ Validate(req'[r].email, req'[r].password)
         /\ UserByEmail(req'[r].email) # {})
            => /\ req'[r].pc = "done"
               /\ req'[r].res \in {Conflict, InternalServerError("Database error")}
               /\ users' = users]_vars

\* A second registration of a registered email has been answered Conflict,
\* and the email has one account.
C10_Witness ==
    \E r \in Req :
        /\ Done(r) /\ req[r].op = "register"
        /\ req[r].res = Conflict
        /\ Cardinality(UserByEmail(req[r].email)) = 1

\* C11: a login with correct credentials signs its access token with expiry
\* now + AccessTTL, and returns that token, whose subject reads back as the
\* id of the account with the email, together with a refresh token whose
\* hash is stored as the session of that account.
C11_LoginPair ==
    [][\A r \in Req :
        /\ (req[r].op = "login" /\ req[r].pc = "it_begin"
            /\ req'[r].pc \in {"it_delete", "it_upsert"})
                => req'[r].aexp = now + AccessTTL
        /\ (req[r].op = "login" /\ req[r].pc = "it_commit" /\ req'[r].res = OkTokens)
                => /\ Len(req'[r].body) = 1
                   /\ LET pair == req'[r].body[1]
                      IN  /\ pair.access_token.form = "jwt"
                          /\ pair.access_token.key = Secret
                          /\ pair.access_token.exp = req[r].aexp
                          /\ \E a \in UserByEmail(req[r].email) :
                                /\ ParseI64(pair.access_token.sub) = a.id
                                /\ SessionsOf(refresh_tokens', a.id) =
                                     {[user_id |-> a.id,
                                       token_hash |-> Sha256Hex(pair.refresh_token),
                                       expires_at |-> req[r].rexp]}]_vars

\* A login has returned its pair after the clock moved on from the signing
\* time: the expiry counts from the signing.
C11_Witness ==
    \E r \in Req :
        /\ Done(r) /\ req[r].op = "login" /\ req[r].res = OkTokens
        /\ req[r].body[1].access_token.sub = "1"
        /\ req[r].body[1].access_token.exp < now + AccessTTL
        /\ req[r].body[1].access_token.exp = req[r].aexp

\* The credentials are well-formed and do not open an account: no account
\* has the email, or the password is not the account's.
BadCredentials(e, p) ==
    /\ Validate(e, p)
    /\ \/ UserByEmail(e) = {}
       \/ \E u \in UserByEmail(e) : ~BcryptVerify(p, u.password_hash)

\* C12: a login for an email without account and a login with a password
\* that does not match get the same answer, Unauthorized with the same
\* message and no body (or, in both cases alike, the internal error of the
\* account lookup failing).
C12_LoginFailuresAlike ==
    \A r \in Req :
        (Done(r) /\ req[r].op = "login" /\ BadCredentials(req[r].email, req[r].password))
            => /\ req[r].res \in {Unauthorized, DatabaseError}
               /\ req[r].res = DatabaseError => req[r].at = "login_select"
               /\ req[r].body = <<>>
               /\ req[r].db = 1

\* A login with a wrong password for an existing account has been answered
\* Unauthorized.
C12_Witness ==
    \E r \in Req :
        /\ Done(r) /\ req[r].op = "login"
        /\ UserByEmail(req[r].email) # {}
        /\ BadCredentials(req[r].email, req[r].password)
        /\ req[r].res = Unauthorized

\* The answered request failed a verification of a credential or token: a
\* refresh whose token is forged, was exchanged before, or is expired; a
\* login with bad credentials; a protected request whose token is no JWT,
\* is signed with another key or is expired.
VerificationFailure(q) ==
    \/ /\ q.op = "refresh"
       /\ \/ q.tok = Forged /\ q.at = "rf_select"
          \/ q.tok \in Tokens /\ hist[q.tok].redeemed >= 1 /\ q.at = "rf_select"
          \/ q.at = "rf_cleanup"
    \/ q.op = "login" /\ q.at = "login_select" /\ BadCredentials(q.email, q.password)
    \/ /\ q.op \in ProtectedOps /\ q.at = "mw_decode"
       /\ \/ q.bearer.form = "malformed"
          \/ q.bearer.form = "jwt" /\ q.bearer.key # Secret
          \/ q.bearer.form = "jwt" /\ q.bearer.exp < now

\* C13: every failed verification of a credential or token is answered with
\* the one generic Unauthorized response, status 401 with the message
\* "Invalid credentials" and no body, whatever its cause (a lookup that fails
\* in the store is an internal error instead).
C13_GenericUnauthorized ==
    \A r \in Req :
        (Done(r) /\ VerificationFailure(req[r]) /\ req[r].res # DatabaseError)
            => /\ req[r].res = [status |-> 401, error |-> "Invalid credentials"]
               /\ req[r].body = <<>>

\* A refresh with an expired token has been answered with the generic
\* response by the cleanup branch.
C13_Witness ==
    \E r \in Req :
        /\ Done(r) /\ req[r].op = "refresh" /\ req[r].at = "rf_cleanup"
        /\ req[r].res = Unauthorized

\* C14: a registration whose payload fails validation is answered with
\* status 422 and creates no account, and a contact creation whose payload
\* fails validation (it ends in the handler without a storage call) is
\* answered with status 422 and creates no contact.
C14_ValidationIs422 ==
    [][\A r \in Req :
        /\ (Starts(r, "register") /\ ~Validate(req'[r].email, req'[r].password))
                => /\ req'[r].pc = "done"
                   /\ req'[r].res.status = 422
                   /\ users' = users
        /\ (req[r].op = "create_contact" /\ req[r].pc = "handler"
            /\ req'[r].pc = "done" /\ req'[r].db = req[r].db)
                => /\ req'[r].res.status = 422
                   /\ contacts' = contacts]_vars

\* C15: a failure of the signing primitive during login or refresh, or of
\* the password-hash verification primitive during login, is answered with
\* an internal server error (status 500), not with an Unauthorized.
C15_PrimitiveFailureIsInternal ==
    [][\A r \in Req :
        /\ (/\ req[r].op \in {"login", "refresh"}
            /\ req[r].pc = "it_begin"
            /\ req'[r].pc = "done"
            /\ req'[r].db = req[r].db)
               => req'[r].res.status = 500
        /\ (/\ req[r].op = "login"
            /\ req[r].pc = "login_select"
            /\ req'[r].pc = "done"
            /\ \E u \in UserByEmail(req[r].email) :
                   BcryptMalformed(u.password_hash))
               => req'[r].res.status = 500]_vars

\* C16: when a storage call of login, of refresh (the lookup or a statement
\* of the rotation transaction), of logout or of the validation of the
\* bearer fails, the request ends at that call with status 500: the call is
\* not repeated, the response carries no token pair and no token becomes
\* returned.
C16_StoreUnavailable ==
    [][\A r \in Req :
        (/\ req'[r].op \in {"login", "refresh", "logout"}
         /\ ~req[r].failed
         /\ req'[r].failed)
            => /\ req'[r].pc = "done"
               /\ req'[r].res.status = 500
               /\ req'[r].res # OkTokens
               /\ req'[r].body = <<>>
               /\ req'[r].db = req[r].db + 1
               /\ \A t \in Tokens : hist'[t].returned = hist[t].returned]_vars

\* A refresh whose rotation transaction failed at its commit.
C16_Witness ==
    \E r \in Req :
        /\ Done(r) /\ req[r].failed
        /\ req[r].op = "refresh" /\ req[r].at = "it_commit"
        /\ req[r].res = DatabaseError /\ req[r].body = <<>>

\* C17: when the best-effort DELETE of the expired row fails during a
\* refresh, the refresh still answers Unauthorized: not an internal error,
\* and not a token pair; the expired row stays in the store.
C17_CleanupFailureUnauthorized ==
    [][\A r \in Req :
        (req[r].pc = "rf_cleanup" /\ req'[r].cleanup_failed)
            => /\ req'[r].pc = "done"
               /\ req'[r].res = Unauthorized
               /\ req'[r].body = <<>>
               /\ refresh_tokens' = refresh_tokens
               /\ \A t \in Tokens : hist'[t].returned = hist[t].returned]_vars

\* A refresh of an expired token ended with a failed cleanup: the row is
\* still stored and the answer is Unauthorized.
C17_Witness ==
    \E r \in Req :
        /\ Done(r) /\ req[r].op = "refresh" /\ req[r].at = "rf_cleanup"
        /\ req[r].cleanup_failed
        /\ req[r].res = Unauthorized
        /\ SelectByHash(refresh_tokens, Sha256Hex(req[r].tok)) # {}

\* C18: logout is unconditional and idempotent.  A logout whose DELETE ran
\* answers 204 whether or not the account had a session row; afterwards the
\* account has no row; and a logout of an account that has no row (a second
\* logout) leaves the store as the first one left it.
C18_LogoutIdempotent ==
    [][\A r \in Req :
        (/\ req[r].op = "logout" /\ req[r].pc = "handler"
         /\ req'[r].pc = "done" /\ ~req'[r].failed)
            => LET u == req[r].user_id
               IN  /\ req'[r].res = NoContent
                   /\ SessionsOf(refresh_tokens', u) = {}
                   /\ refresh_tokens' \subseteq refresh_tokens
                   /\ SessionsOf(refresh_tokens, u) = {}
                         => refresh_tokens' = refresh_tokens
                   /\ DeleteByUser(refresh_tokens', u) = refresh_tokens']_vars

\* A logout that found no row to delete was answered 204.
C18_Witness ==
    \E r \in Req :
        /\ Done(r) /\ req[r].op = "logout" /\ req[r].at = "handler"
        /\ req[r].rows_affected = 0
        /\ req[r].res = NoContent

\* An access token of the server that has not expired at the current time.
Unexpired(b) ==
    /\ b.form = "jwt" /\ b.key = Secret
    /\ b.exp >= now
    /\ ParseI64(b.sub) # ParseError

\* C19: access tokens are stateless.  A protected request that carries an
\* unexpired access token of an existing account passes every check of the
\* validator whose storage call does not fail, whatever the refresh-session
\* rows are: after a logout, after a later login, after the rotation of the
\* refresh token it was issued with.
C19_AccessTokenStateless ==
    [][\A r \in Req :
        /\ (StartsProtected(r) /\ Unexpired(req'[r].bearer))
              => req'[r].pc = "mw_load"
        /\ (/\ req[r].pc = "mw_load" /\ req'[r] # req[r] /\ ~req'[r].failed
            /\ Unexpired(req[r].bearer)
            /\ UserById(req[r].user_id) # {})
              => req'[r].pc = "extract"
        /\ (/\ req[r].pc = "extract" /\ req'[r] # req[r] /\ ~req'[r].failed
            /\ UserById(req[r].user_id) # {})
              => req'[r].pc = "handler" /\ req'[r].ran]_vars

\* A request reached its handler with the access token of a session that a
\* logout had ended.
C19_Witness ==
    \E r \in Req :
        /\ req[r].pc = "handler" /\ req[r].ran
        /\ req[r].bearer.form = "jwt"
        /\ req[r].bearer.nonce \in Tokens
        /\ hist[req[r].bearer.nonce].loggedout
        /\ SessionsOf(refresh_tokens, req[r].user_id) = {}

\* The rows of refresh_tokens, committed or written inside an open
\* transaction.
StoredRows == refresh_tokens \cup UNION {req[r].tx : r \in Req}

\* C20: the store holds only digests.  No stored token_hash is a token that
\* was generated or presented; every stored token_hash is the digest of a
\* generated token; and a token appears only in the response of the login
\* or refresh that generated it: that response carries the request's own
\* token, no other response carries any, and no two responses carry the
\* same token.
C20_OnlyHashesStored ==
    /\ \A row \in StoredRows :
          /\ row.token_hash \notin Tokens \cup {Forged}
          /\ \E t \in Tokens : row.token_hash = Sha256Hex(t)
    /\ \A r \in Req :
          Done(r) =>
            IF req[r].res = OkTokens
            THEN /\ req[r].op \in {"login", "refresh"}
                 /\ Len(req[r].body) = 1
                 /\ req[r].body[1].refresh_token = req[r].n
                 /\ req[r].op = "refresh" => req[r].n # req[r].tok
                 /\ \A r2 \in Req \ {r} :
                       (Done(r2) /\ req[r2].res = OkTokens)
                           => req[r2].body[1].refresh_token # req[r].n
            ELSE req[r].body = <<>>

\* A refresh returned a new token and the store holds its digest, not it.
C20_Witness ==
    \E r \in Req :
        /\ Done(r) /\ req[r].op = "refresh" /\ req[r].res = OkTokens
        /\ \E row \in refresh_tokens :
              /\ row.token_hash = Sha256Hex(req[r].body[1].refresh_token)
              /\ row.token_hash # req[r].body[1].refresh_token

\* The access token of the pair that refresh token t was returned with.
AccessTokenOf(t) == AccessToken(hist[t].user, hist[t].aexp, t)

\* C21: every successful login or refresh returns a freshly generated pair.
\* The returned refresh token differs from every refresh token returned
\* before and from the one presented, and the returned access token differs
\* from the access token of every pair returned before, the exchanged pair
\* included, even when it has the same subject and the same expiry.
C21_FreshPair ==
    [][\A r \in Req :
        (req[r].pc = "it_commit" /\ req'[r].res = OkTokens)
            => LET pair == req'[r].body[1]
               IN  /\ pair.refresh_token # req[r].tok
                   /\ \A t \in Tokens :
                        hist[t].returned
                            => /\ pair.refresh_token # t
                               /\ pair.access_token # AccessTokenOf(t)]_vars

\* A refresh returned a pair whose access token has the subject and the
\* expiry of the access token of the exchanged pair.
C21_Witness ==
    \E r \in Req :
        /\ Done(r) /\ req[r].op = "refresh" /\ req[r].res = OkTokens
        /\ hist[req[r].tok].returned
        /\ hist[req[r].tok].user = req[r].user_id
        /\ hist[req[r].tok].aexp = req[r].aexp
        /\ req[r].body[1].access_token # AccessTokenOf(req[r].tok)
        /\ req[r].body[1].refresh_token # req[r].tok

\* The session row that the issuance of request q writes.
RowOf(q) == [user_id |-> q.user_id, token_hash |-> Sha256Hex(q.n), expires_at |-> q.rexp]

\* Refresh token t was returned and its digest is not in the store.
Superseded(t) == hist[t].returned /\ SelectByHash(refresh_tokens, Sha256Hex(t)) = {}

\* C22: when a login and a refresh of one account overlap and both succeed,
\* the account ends with exactly one session, the one of the request that
\* committed last: every commit leaves the account with its own row only, a
\* digest that has left the store does not come back, and a refresh that
\* starts with a token whose digest has left the store is turned away.
C22_LastCommitWins ==
    [][/\ \A r \in Req :
            (req[r].pc = "it_commit" /\ req'[r].res = OkTokens)
                => SessionsOf(refresh_tokens', req[r].user_id) = {RowOf(req[r])}
       /\ \A t \in Tokens :
            Superseded(t) => SelectByHash(refresh_tokens', Sha256Hex(t)) = {}
       /\ \A r \in Req :
            (Starts(r, "refresh") /\ req'[r].tok \in Tokens /\ Superseded(req'[r].tok))
                => Rejected(req'[r])]_vars

\* A refresh committed after a login of the same account that had committed
\* after the refresh's lookup: the account's only session is the refresh's,
\* and the token the login returned is not in the store.
C22_Witness ==
    \E r \in Req :
        /\ Done(r) /\ req[r].op = "refresh" /\ req[r].res = OkTokens
        /\ hist[req[r].tok].relogin
        /\ SessionsOf(refresh_tokens, req[r].user_id) = {RowOf(req[r])}
        /\ \E t \in Tokens \ {req[r].tok, req[r].n} :
              /\ hist[t].kind = "login" /\ hist[t].user = req[r].user_id
              /\ Superseded(t)

\* C23: a login invalidates every refresh token of an earlier login of the
\* account: once the later login has committed, no refresh that presents
\* the earlier token ends with a token pair, whether it starts afterwards or
\* had looked the token up before the login committed.
C23_LoginInvalidatesEarlier ==
    [][\A r \in Req :
        (/\ req[r].pc # "done" /\ req'[r].pc = "done"
         /\ req'[r].op = "refresh"
         /\ req'[r].tok \in Tokens
         /\ hist[req'[r].tok].relogin)
            => req'[r].res # OkTokens]_vars

\* C24: a request whose access token is correctly signed and unexpired but
\* names an account that no longer exists is answered Unauthorized by the
\* user lookup that finds no row, and its handler is not run.
C24_DeletedAccountRejected ==
    [][\A r \in Req :
        (/\ req[r].pc \in {"mw_load", "extract"}
         /\ req'[r] # req[r] /\ ~req'[r].failed
         /\ Unexpired(req[r].bearer)
         /\ UserById(req[r].user_id) = {})
            => /\ req'[r].pc = "done"
               /\ req'[r].res = Unauthorized
               /\ ~req'[r].ran]_vars

\* The token of a deleted account, still unexpired, was answered
\* Unauthorized by the validator's lookup.
C24_Witness ==
    \E r \in Req :
        /\ Done(r) /\ req[r].at = "mw_load"
        /\ Unexpired(req[r].bearer)
        /\ req[r].bearer.nonce \in Tokens /\ hist[req[r].bearer.nonce].returned
        /\ UserById(req[r].user_id) = {}
        /\ req[r].res = Unauthorized /\ ~req[r].ran

\* C25: for each protected request the account is loaded from storage
\* exactly once, by the validator: when the handler starts, the request has
\* made one storage round trip, and the handler's own statements are the
\* only ones that follow.
C25_LoadedOnce ==
    \A r \in Req :
        (req[r].pc = "handler" /\ req[r].op \in ProtectedOps) => req[r].db = 1

\* C26: a correctly signed, unexpired access token whose subject does not
\* parse as an account id is answered with an internal server error, not
\* Unauthorized, before any storage call; and the subject of every access
\* token that a login or refresh returns parses to the account's id.
C26_MalformedSubjectInternal ==
    [][\A r \in Req :
        /\ (/\ StartsProtected(r)
            /\ req'[r].bearer.form = "jwt" /\ req'[r].bearer.key = Secret
            /\ req'[r].bearer.exp >= now
            /\ ParseI64(req'[r].bearer.sub) = ParseError)
              => /\ req'[r].pc = "done"
                 /\ req'[r].res = InternalServerError("Invalid user ID in token")
                 /\ req'[r].res.status = 500
                 /\ req'[r].db = 0 /\ ~req'[r].ran
        /\ (req[r].pc = "it_commit" /\ req'[r].res = OkTokens)
              => /\ ParseI64(req'[r].body[1].access_token.sub) # ParseError
                 /\ ParseI64(req'[r].body[1].access_token.sub) = req[r].user_id]_vars

\* A token signed with the server's key whose subject is no number was
\* presented, after a pair had been issued, and answered with status 500.
C26_Witness ==
    \E r \in Req :
        /\ Done(r) /\ req[r].at = "mw_decode"
        /\ req[r].bearer.form = "jwt" /\ req[r].bearer.key = Secret
        /\ req[r].bearer.exp >= now
        /\ ParseI64(req[r].bearer.sub) = ParseError
        /\ req[r].res.status = 500
        /\ \E t \in Tokens : hist[t].returned

OwnedByOther(id, u) == \E c \in contacts : c.id = id /\ c.user_id # u

\* C28: contacts are isolated per account.  A get, update or delete whose
\* statement ran on a contact that exists and belongs to another account is
\* answered NotFound and leaves the contacts as they were; a get by the
\* owner of a contact that exists returns that contact; and a listing
\* returns rows of the caller only.
C28_ContactIsolation ==
    [][\A r \in Req :
        (/\ req[r].pc = "handler" /\ req'[r].pc = "done"
         /\ req'[r].db = req[r].db + 1
         /\ req'[r].res.status # 500)
            => LET u == req[r].user_id
                   id == req'[r].id
               IN  /\ (/\ req[r].op \in {"get_contact", "update_contact", "delete_contact"}
                       /\ OwnedByOther(id, u))
                         => /\ req'[r].res = NotFound
                            /\ req'[r].body = <<>>
                            /\ contacts' = contacts
                   /\ (req[r].op = "get_contact" /\ ContactById(id, u) # {})
                         => /\ req'[r].res = OkBody
                            /\ Len(req'[r].body) = 1
                            /\ req'[r].body[1] \in contacts
                            /\ req'[r].body[1].id = id
                            /\ req'[r].body[1].user_id = u
                   /\ req[r].op = "get_contacts"
                         => \A i \in 1..Len(req'[r].body) :
                               /\ req'[r].body[i] \in contacts
                               /\ req'[r].body[i].user_id = u
                   /\ req[r].op \in {"update_contact", "delete_contact", "create_contact"}
                         => {c \in contacts' : c.user_id # u} =
                            {c \in contacts : c.user_id # u}]_vars

\* A delete of another account's contact was answered NotFound and the
\* contact is still there.
C28_Witness ==
    \E r \in Req :
        /\ Done(r) /\ req[r].op = "delete_contact" /\ req[r].at = "handler"
        /\ req[r].res = NotFound
        /\ OwnedByOther(req[r].id, req[r].user_id)

\* C29: the access token's expiry is checked with no leeway and the bound is
\* inclusive: a protected request whose token has an expiry less than or
\* equal to the current time, the time of expiry itself included, is
\* answered Unauthorized by the validator.
C29_ExpiryInclusive ==
    [][\A r \in Req :
        (/\ StartsProtected(r)
         /\ req'[r].bearer.form = "jwt"
         /\ req'[r].bearer.exp <= now)
            => TurnedAwayAtOnce(req'[r])]_vars

\* C30: refresh treats a session as expired exactly when its stored expiry
\* is strictly earlier than the current time.  A lookup that finds the row
\* sends the request to the cleanup when expires_at < now and to the
\* rotation otherwise, expires_at = now included; the cleanup always ends
\* with Unauthorized, and no refresh that found its row expired ends with a
\* token pair.
C30_ExpiryStrict ==
    [][\A r \in Req :
        /\ (Starts(r, "refresh") /\ ~req'[r].failed)
              => \A x \in SelectByHash(refresh_tokens, Sha256Hex(req'[r].tok)) :
                    /\ x.expires_at < now => req'[r].pc = "rf_cleanup"
                    /\ x.expires_at >= now
                         => req'[r].pc = "it_begin" /\ req'[r].remaining >= 0
        /\ (req[r].pc = "rf_cleanup" /\ req'[r] # req[r])
              => req'[r].pc = "done" /\ req'[r].res = Unauthorized
        /\ (req[r].op = "refresh" /\ req[r].pc # "done" /\ req'[r].res = OkTokens)
              => req[r].remaining >= 0]_vars

\* A refresh found its row with an expiry equal to the current time and
\* ended with a new token pair.
C30_Witness ==
    \E r \in Req :
        /\ Done(r) /\ req[r].op = "refresh"
        /\ req[r].remaining = 0
        /\ req[r].res = OkTokens
        /\ SessionsOf(refresh_tokens, req[r].user_id) = {RowOf(req[r])}

\* A logout of account u has completed and no login of u has started since:
\* every token that a login of u returned was ended by a logout, and no
\* login is in flight.
LoggedOutFor(u) ==
    /\ \E t \in Tokens : hist[t].returned /\ hist[t].user = u /\ hist[t].loggedout
    /\ \A t \in Tokens :
          (hist[t].returned /\ hist[t].user = u /\ hist[t].kind = "login")
              => hist[t].loggedout
    /\ \A r \in Req : req[r].op # "login"

\* C31: logout ends the session also against a refresh in flight.  Once a
\* logout of the account has completed and no login of it has started since,
\* the account has no session row and no refresh of a token of the account
\* ends with a token pair, a refresh that was past its lookup when the
\* logout ran included.
C31_LogoutBeatsRefresh ==
    [][\A r \in Req :
        (/\ req[r].pc # "done" /\ req'[r].pc = "done"
         /\ req'[r].op = "refresh"
         /\ req'[r].tok \in Tokens
         /\ hist[req'[r].tok].loggedout
         /\ LoggedOutFor(hist[req'[r].tok].user))
            => /\ req'[r].res # OkTokens
               /\ SessionsOf(refresh_tokens', hist[req'[r].tok].user) = {}]_vars

\* C32: of two registrations of one unregistered email that both passed the
\* existence check, one is answered Created and the other Conflict, and the
\* email has exactly one account: an insert that runs when the email has
\* been registered in the meantime adds no account and is answered Conflict.
C32_RegisterRace ==
    [][\A r \in Req :
        (/\ req[r].pc = "reg_insert" /\ req'[r].pc = "done"
         /\ writer = "none"
         /\ UserByEmail(req[r].email) # {})
            => /\ users' = users
               /\ Cardinality(UserByEmail(req[r].email)) = 1
               /\ req'[r].res = Conflict]_vars

\* C33: a login answered Unauthorized (unknown email or wrong password) and
\* a refresh answered Unauthorized because no row has the presented hash
\* leave the accounts and every refresh-session row as they were.
C33_RejectionChangesNothing ==
    [][\A r \in Req :
        (/\ req[r].pc = "idle" /\ req'[r].pc = "done"
         /\ req'[r].op \in {"login", "refresh"}
         /\ req'[r].res = Unauthorized)
            => /\ users' = users
               /\ refresh_tokens' = refresh_tokens]_vars

\* A login with a wrong password was rejected while the account has a
\* session, and a refresh of a token that no row matches was rejected
\* while a session is stored.
C33_Witness ==
    \/ \E r \in Req : \E u \in users :
        /\ Done(r) /\ req[r].op = "login" /\ req[r].res = Unauthorized
        /\ req[r].email = u.email
        /\ SessionsOf(refresh_tokens, u.id) # {}
    \/ \E r \in Req :
        /\ Done(r) /\ req[r].op = "refresh" /\ req[r].res = Unauthorized
        /\ req[r].remaining = Idle.remaining
        /\ refresh_tokens # {}

\* The request that the step of slot r belongs to.
Acting(r) == IF req[r].pc = "idle" THEN req'[r] ELSE req[r]

\* The account a login, refresh or logout request acts on: the owner of the
\* presented refresh token, the account found by the login's email, the
\* account the logout's bearer token authenticates; 0 while none is known.
AccountOf(q) ==
    IF q.op = "refresh"
    THEN IF q.tok \in Tokens THEN hist[q.tok].user ELSE 0
    ELSE q.user_id

C35_RefreshKeepsAccount ==
    [][\A r \in Req :
        /\ (Starts(r, "refresh") /\ req'[r].pc = "it_begin") =>
            /\ \E x \in SelectByHash(refresh_tokens, Sha256Hex(req'[r].tok)) :
                    req'[r].user_id = x.user_id
            /\ req'[r].user_id = hist[req'[r].tok].user
        /\ (/\ req[r].pc # "done" /\ req'[r].pc = "done"
            /\ req'[r].op = "refresh" /\ req'[r].res = OkTokens) =>
            /\ req'[r].body[1].access_token.sub = IdToString(hist[req'[r].tok].user)
            /\ \E x \in SelectByHash(refresh_tokens', Sha256Hex(req'[r].body[1].refresh_token)) :
                    x.user_id = hist[req'[r].tok].user]_vars

\* A refresh has returned a pair for one of two registered accounts, and
\* the new session is stored.
C35_Witness ==
    \E r \in Req :
        /\ Done(r) /\ req[r].op = "refresh" /\ req[r].res = OkTokens
        /\ \E a \in users : a.id # req[r].user_id
        /\ SelectByHash(refresh_tokens, Sha256Hex(req[r].body[1].refresh_token)) # {}

\* Request r is inside issue_tokens.
InIssueTokens(r) == req[r].pc \in {"it_begin", "it_delete", "it_upsert", "it_commit"}

\* C36: issuance is all-or-nothing. A step of issue_tokens that ends the
\* call without a pair (signing, begin, delete, upsert or commit failed)
\* returns no body and leaves the session store as it is; no step before
\* the commit changes the store; a pair is returned only by the commit,
\* which stores the transaction's rows, the new session among them.
C36_IssuanceAllOrNothing ==
    [][\A r \in Req : (InIssueTokens(r) /\ req'[r] # req[r]) =>
        /\ (req'[r].pc = "done" /\ req'[r].res # OkTokens) =>
            /\ req'[r].body = Idle.body
            /\ refresh_tokens' = refresh_tokens
            /\ hist' = hist
        /\ refresh_tokens' # refresh_tokens =>
            /\ req[r].pc = "it_commit"
            /\ req'[r].res = OkTokens
        /\ (req'[r].pc = "done" /\ req'[r].res = OkTokens) =>
            /\ req[r].pc = "it_commit"
            /\ req'[r].body = <<LoginResponse(req'[r])>>
            /\ refresh_tokens' = req[r].tx
            /\ RowOf(req'[r]) \in refresh_tokens']_vars

\* The commit of a rotation failed: the transaction had deleted the old
\* row and written the new one, and the store still holds the old row only.
C36_Witness ==
    \E r \in Req :
        /\ Done(r) /\ req[r].failed /\ req[r].at = "it_commit"
        /\ req[r].op = "refresh"
        /\ RowOf(req[r]) \in req[r].tx
        /\ RowOf(req[r]) \notin refresh_tokens
        /\ SelectByHash(refresh_tokens, req[r].old) # {}

\* C37: the cleanup of an expired session deletes only the row whose hash
\* is the presented token's. Every row of another hash, the session of a
\* login of the same account that committed after the refresh's lookup
\* among them, is still stored after the cleanup step.
C37_CleanupDeletesOwnRowOnly ==
    [][\A r \in Req :
        (req[r].pc = "rf_cleanup" /\ req'[r].pc = "done") =>
            /\ \A x \in refresh_tokens :
                x.token_hash # Sha256Hex(req[r].tok) => x \in refresh_tokens'
            /\ refresh_tokens' \subseteq refresh_tokens]_vars

\* The cleanup of an expired token has run its DELETE after a login of the
\* same account committed, and the login's session is stored and unexpired.
C37_Witness ==
    \E r \in Req : \E t \in Tokens :
        /\ Done(r) /\ req[r].at = "rf_cleanup" /\ ~req[r].cleanup_failed
        /\ hist[t].returned /\ hist[t].kind = "login"
        /\ hist[t].user = hist[req[r].tok].user
        /\ t # req[r].tok
        /\ \E x \in SelectByHash(refresh_tokens, Sha256Hex(t)) : ~(x.expires_at < now)

\* The expiry of the session of returned pair t: its issue time plus the
\* refresh lifetime.
RefreshExpiryOf(t) == hist[t].aexp - AccessTTL + RefreshTTL

\* Pair t is the account's most recently issued one and no logout of the
\* account has committed since. Requests are served one at a time, so the
\* pairs are named in the order they are returned, and a login or a
\* successful refresh of the account after t has returned a later pair.
MostRecent(t) ==
    /\ hist[t].returned
    /\ ~hist[t].loggedout
    /\ \A s \in Tokens : (hist[s].returned /\ hist[s].user = hist[t].user) => s <= t

\* C38: the most recently issued refresh token is usable. A refresh that
\* presents it before its expiry has passed is not rejected at its lookup,
\* and the call ends with a new token pair unless signing or a storage call
\* fails.
C38_MostRecentTokenUsable ==
    [][\A r \in Req :
        (/\ req[r].pc # "done" /\ req'[r] # req[r]
         /\ Acting(r).op = "refresh"
         /\ Acting(r).tok \in Tokens
         /\ MostRecent(Acting(r).tok))
            => /\ (req[r].pc = "idle" /\ now <= RefreshExpiryOf(req'[r].tok)) =>
                    \/ req'[r].pc = "it_begin"
                    \/ req'[r].pc = "done" /\ req'[r].failed
               /\ (InIssueTokens(r) /\ req'[r].pc = "done") =>
                    \/ /\ req'[r].res = OkTokens
                       /\ req'[r].body = <<LoginResponse(req'[r])>>
                       /\ req'[r].body[1].refresh_token # req[r].tok
                       /\ hist'[req'[r].body[1].refresh_token].returned
                    \/ req'[r].failed
                    \/ req'[r].res = JwtError]_vars

\* The most recent pair of the account was itself obtained by a refresh,
\* was presented at the instant of its expiry, and the refresh has returned
\* a new pair.
C38_Witness ==
    \E r \in Req :
        /\ Done(r) /\ req[r].op = "refresh" /\ req[r].res = OkTokens
        /\ hist[req[r].tok].kind = "refresh"
        /\ req[r].remaining = 0
        /\ hist[req[r].n].returned

\* The elements of s at the offsets a up to but excluding b, counted from 0.
Slice(s, a, b) ==
    LET last == IF b < Len(s) THEN b ELSE Len(s)
    IN  [i \in 1..(IF last > a THEN last - a ELSE 0) |-> s[a + i]]

\* C39: the listing of page p >= 1 with per_page n answers with the
\* caller's contacts at the offsets (p-1)*n up to but excluding p*n, which
\* are min(n, max(0, total - (p-1)*n)) contacts, unless the query fails.
C39_Pagination ==
    \A r \in Req :
        (/\ Done(r) /\ req[r].op = "get_contacts"
         /\ req[r].at = "handler"
         /\ req[r].res # InternalServerError("Failed to fetch contacts")
         /\ req[r].page >= 1)
            => LET all == ById(ContactsOf(req[r].user_id))
                   total == Len(all)
                   lo == (req[r].page - 1) * req[r].per_page
                   rest == IF total > lo THEN total - lo ELSE 0
               IN  /\ req[r].res = OkBody
                   /\ req[r].body = Slice(all, lo, lo + req[r].per_page)
                   /\ Len(req[r].body) = IF req[r].per_page < rest THEN req[r].per_page ELSE rest

====
